---- MODULE Spec2Model ----
(***************************************************************************)
(* Model of internal/source/source.go: resolution of a module path and a   *)
(* version to a repository, a module directory, a commit and URL           *)
(* templates (moduleInfo, matchStatic, moduleInfoDynamic), the derivation  *)
(* of the commit (commitFromVersion, isPseudoVersion), template expansion  *)
(* (expand) and the URL accessors of Info.                                 *)
(*                                                                         *)
(* A Go string is a sequence of one-character strings; indexes are         *)
(* 1-based, so Go's s[n:] is Drop(s, n).                                   *)
(***************************************************************************)
EXTENDS Integers, Sequences, FiniteSets, TLC

VARIABLES modulePath, version, pc, ctx, steps, fetchCount, staticRes,
          fetched, result, args, out

vars == <<modulePath, version, pc, ctx, steps, fetchCount, staticRes,
          fetched, result, args, out>>

-----------------------------------------------------------------------------
(* Strings (package strings)                                               *)

Lower == {"a", "b", "c", "d", "e", "f", "g", "h", "i", "j", "k", "l", "m", "n", "o", "p", "q", "r", "s", "t", "u", "v", "w", "x", "y", "z"}
Upper == {"A", "B", "C", "D", "E", "F", "G", "H", "I", "J", "K", "L", "M", "N", "O", "P", "Q", "R", "S", "T", "U", "V", "W", "X", "Y", "Z"}
Digit == {"0", "1", "2", "3", "4", "5", "6", "7", "8", "9"}

Drop(s, n) == SubSeq(s, n + 1, Len(s))

HasPrefix(s, p) == Len(p) <= Len(s) /\ SubSeq(s, 1, Len(p)) = p

HasSuffix(s, p) == Len(p) <= Len(s) /\ Drop(s, Len(s) - Len(p)) = p

TrimPrefix(s, p) == IF HasPrefix(s, p) THEN Drop(s, Len(p)) ELSE s

TrimSuffix(s, p) == IF HasSuffix(s, p) THEN SubSeq(s, 1, Len(s) - Len(p)) ELSE s

\* HasPrefix(s[i-1:], p): p occurs in s at position i
HasAt(s, i, p) == i >= 1 /\ i + Len(p) - 1 <= Len(s) /\ SubSeq(s, i, i + Len(p) - 1) = p

\* strings.Count(s, c) for a one-character c
Count(s, c) == Cardinality({i \in 1..Len(s) : s[i] = c})

\* strings.LastIndex(s, c) + 1 for a one-character c: 0 when c does not occur
LastIndex(s, c) ==
    LET at == {i \in 1..Len(s) : s[i] = c}
    IN  IF at = {} THEN 0 ELSE CHOOSE i \in at : \A j \in at : j <= i

\* the length of the longest run of characters of class cls that starts at s[i]
RECURSIVE RunLen(_, _, _)
RunLen(s, i, cls) ==
    IF i <= Len(s) /\ s[i] \in cls THEN 1 + RunLen(s, i + 1, cls) ELSE 0

\* the characters a negated class [^x] takes in the inputs of the model
AnyChar == Lower \cup Upper \cup Digit \cup {".", "/", "-", "_", "~", ":", "+", "{", "}"}

-----------------------------------------------------------------------------
(* urlTemplates and the pattern table                                      *)

Nil == "nil"

NotFound == "NotFound"

\* urlTemplates{}
noTemplates == [directory |-> <<>>, file |-> <<>>, line |-> <<>>]

githubURLTemplates ==
    [directory |-> <<"{", "r", "e", "p", "o", "}", "/", "t", "r", "e", "e", "/", "{", "c", "o", "m", "m", "i", "t", "}", "/", "{", "d", "i", "r", "}">>,
     file      |-> <<"{", "r", "e", "p", "o", "}", "/", "b", "l", "o", "b", "/", "{", "c", "o", "m", "m", "i", "t", "}", "/", "{", "f", "i", "l", "e", "}">>,
     line      |-> <<"{", "r", "e", "p", "o", "}", "/", "b", "l", "o", "b", "/", "{", "c", "o", "m", "m", "i", "t", "}", "/", "{", "f", "i", "l", "e", "}", "#", "L", "{", "l", "i", "n", "e", "}">>]

bitbucketURLTemplates ==
    [directory |-> <<"{", "r", "e", "p", "o", "}", "/", "s", "r", "c", "/", "{", "c", "o", "m", "m", "i", "t", "}", "/", "{", "d", "i", "r", "}">>,
     file      |-> <<"{", "r", "e", "p", "o", "}", "/", "s", "r", "c", "/", "{", "c", "o", "m", "m", "i", "t", "}", "/", "{", "f", "i", "l", "e", "}">>,
     line      |-> <<"{", "r", "e", "p", "o", "}", "/", "s", "r", "c", "/", "{", "c", "o", "m", "m", "i", "t", "}", "/", "{", "f", "i", "l", "e", "}", "#", "l", "i", "n", "e", "s", "-", "{", "l", "i", "n", "e", "}">>]

googlesourceURLTemplates ==
    [directory |-> <<"{", "r", "e", "p", "o", "}", "/", "+", "/", "{", "c", "o", "m", "m", "i", "t", "}", "/", "{", "d", "i", "r", "}">>,
     file      |-> <<"{", "r", "e", "p", "o", "}", "/", "+", "/", "{", "c", "o", "m", "m", "i", "t", "}", "/", "{", "f", "i", "l", "e", "}">>,
     line      |-> <<"{", "r", "e", "p", "o", "}", "/", "+", "/", "{", "c", "o", "m", "m", "i", "t", "}", "/", "{", "f", "i", "l", "e", "}", "#", "{", "l", "i", "n", "e", "}">>]

\* the result of FindStringSubmatch: nil, or matches[0] and the group "repo";
\* at is where matches[0] begins in the string, which the result does not tell
NoMatch == [matched |-> FALSE, at |-> 0, m0 |-> <<>>, repo |-> <<>>]

Submatch(at, m0, repo) == [matched |-> TRUE, at |-> at, m0 |-> m0, repo |-> repo]

\* [a-z0-9A-Z_.\-]
SegChar == Lower \cup Digit \cup Upper \cup {"_", ".", "-"}

\* ^(?P<repo>HOST/[a-z0-9A-Z_.\-]+/[a-z0-9A-Z_.\-]+): neither segment can
\* stop before the end of its run, the next character being of the class
TwoSegment(s, host) ==
    LET n1 == RunLen(s, Len(host) + 1, SegChar)
        p  == Len(host) + n1 + 1
        n2 == RunLen(s, p + 1, SegChar)
    IN  IF HasPrefix(s, host) /\ n1 >= 1 /\ p <= Len(s) /\ s[p] = "/" /\ n2 >= 1
        THEN Submatch(1, SubSeq(s, 1, p + n2), SubSeq(s, 1, p + n2))
        ELSE NoMatch

reGithub(s) == TwoSegment(s, <<"g", "i", "t", "h", "u", "b", ".", "c", "o", "m", "/">>)

reBitbucket(s) == TwoSegment(s, <<"b", "i", "t", "b", "u", "c", "k", "e", "t", ".", "o", "r", "g", "/">>)

\* ^(?P<repo>[^.]+\.googlesource.com/[^.]+)(\.git|$); the dot between
\* "googlesource" and "com" is unescaped and takes any character
reGooglesource(s) ==
    LET NotDot == AnyChar \ {"."}
        n1 == RunLen(s, 1, NotDot)
        g  == n1 + 2
        d  == g + Len(<<"g", "o", "o", "g", "l", "e", "s", "o", "u", "r", "c", "e">>)
        r  == d + 1 + Len(<<"c", "o", "m", "/">>)
        n2 == RunLen(s, r, NotDot)
        e  == r + n2 - 1
    IN  IF /\ n1 >= 1
           /\ HasAt(s, n1 + 1, <<".">>)
           /\ HasAt(s, g, <<"g", "o", "o", "g", "l", "e", "s", "o", "u", "r", "c", "e">>)
           /\ d <= Len(s)
           /\ HasAt(s, d + 1, <<"c", "o", "m", "/">>)
           /\ n2 >= 1
        THEN IF HasAt(s, e + 1, <<".", "g", "i", "t">>)
             THEN Submatch(1, SubSeq(s, 1, e + Len(<<".", "g", "i", "t">>)), SubSeq(s, 1, e))
             ELSE IF e = Len(s)
                  THEN Submatch(1, SubSeq(s, 1, e), SubSeq(s, 1, e))
                  ELSE NoMatch
        ELSE NoMatch

\* (bzr|fossil|git|hg|svn)
vcsSuffixes == <<<<"b", "z", "r">>, <<"f", "o", "s", "s", "i", "l">>, <<"g", "i", "t">>, <<"h", "g">>, <<"s", "v", "n">>>>

\* the length of the alternative of (bzr|fossil|git|hg|svn) found at s[i], or 0
VcsLen(s, i) ==
    LET hits == {k \in 1..Len(vcsSuffixes) : HasAt(s, i, vcsSuffixes[k])}
    IN  IF hits = {} THEN 0
        ELSE Len(vcsSuffixes[CHOOSE k \in hits : \A j \in hits : k <= j])

\* [a-z0-9.\-]
HostChar == Lower \cup Digit \cup {".", "-"}

\* [A-Za-z0-9_.\-]
PathChar == Upper \cup Lower \cup Digit \cup {"_", ".", "-"}

\* (/~?[A-Za-z0-9_.\-]+)+?\.(bzr|fossil|git|hg|svn) from s[i]: the index of the
\* last character of the group "repo", or 0. A segment is tried at its
\* longest first: at the end of its run only a further segment can follow,
\* anywhere before it only the dot of the suffix
RECURSIVE segEnd(_, _)
segEnd(s, i) ==
    IF ~(i <= Len(s) /\ s[i] = "/") THEN 0
    ELSE LET j  == IF i + 1 <= Len(s) /\ s[i + 1] = "~" THEN i + 2 ELSE i + 1
             m  == RunLen(s, j, PathChar)
             ks == {k \in 1..(m - 1) : s[j + k] = "." /\ VcsLen(s, j + k + 1) > 0}
         IN  IF m = 0 THEN 0
             ELSE LET more == segEnd(s, j + m)
                  IN  IF more # 0 THEN more
                      ELSE IF ks = {} THEN 0
                      ELSE j - 1 + CHOOSE k \in ks : \A l \in ks : l <= k

\* the general pattern tried at s[p]: the index of the last character of the
\* group "repo", or 0. ([a-z0-9.\-]+\.)+[a-z0-9.\-]+ takes the whole run of
\* host characters, which must hold a dot that is neither first nor last
generalEnd(s, p) ==
    LET h  == RunLen(s, p, HostChar)
        q  == p + h
        nd == IF q <= Len(s) /\ s[q] = ":" THEN RunLen(s, q + 1, Digit) ELSE 0
        q2 == IF nd >= 1 THEN q + 1 + nd ELSE q
    IN  IF \E d \in (p + 1)..(p + h - 2) : s[d] = "." THEN segEnd(s, q2) ELSE 0

\* (?P<repo>([a-z0-9.\-]+\.)+[a-z0-9.\-]+(:[0-9]+)?(/~?[A-Za-z0-9_.\-]+)+?)\.(bzr|fossil|git|hg|svn)
\* is not anchored: the match is the one at the leftmost position that has one
reGeneral(s) ==
    LET ps == {p \in 1..Len(s) : generalEnd(s, p) # 0}
    IN  IF ps = {} THEN NoMatch
        ELSE LET p == CHOOSE x \in ps : \A y \in ps : x <= y
                 e == generalEnd(s, p)
             IN  Submatch(p, SubSeq(s, p, e + 1 + VcsLen(s, e + 2)), SubSeq(s, p, e))

patterns ==
    << [re |-> "github",       templates |-> githubURLTemplates],
       [re |-> "bitbucket",    templates |-> bitbucketURLTemplates],
       [re |-> "googlesource", templates |-> googlesourceURLTemplates],
       [re |-> "general",      templates |-> noTemplates] >>

\* pat.re.FindStringSubmatch(s)
FindStringSubmatch(re, s) ==
    CASE re = "github"       -> reGithub(s)
      [] re = "bitbucket"    -> reBitbucket(s)
      [] re = "googlesource" -> reGooglesource(s)
      [] re = "general"      -> reGeneral(s)

\* staticMatch with the directory given a closing separator
staticMatchClosedDir(s, m, templates) ==
    LET dir == TrimPrefix(Drop(s, Len(m.m0)), <<"/">>)
    IN  [repo |-> m.repo, dir |-> IF dir = <<>> THEN dir ELSE dir \o <<"/">>,
         templates |-> templates, err |-> Nil]

\* what matchStatic returns for a pattern that matched with m
staticMatch(s, m, templates) ==
    [repo |-> m.repo, dir |-> TrimPrefix(Drop(s, Len(m.m0)), <<"/">>),
     templates |-> templates, err |-> Nil]

staticNotFound == [repo |-> <<>>, dir |-> <<>>, templates |-> noTemplates, err |-> NotFound]

\* the loop of matchStatic from patterns[i] on
RECURSIVE matchFrom(_, _)
matchFrom(i, s) ==
    IF i > Len(patterns) THEN staticNotFound
    ELSE LET m == FindStringSubmatch(patterns[i].re, s)
         IN  IF ~m.matched THEN matchFrom(i + 1, s)
             ELSE staticMatch(s, m, patterns[i].templates)

\* the loop of matchStatic run from the last pattern to the first
RECURSIVE matchBack(_, _)
matchBack(i, s) ==
    IF i < 1 THEN staticNotFound
    ELSE LET m == FindStringSubmatch(patterns[i].re, s)
         IN  IF ~m.matched THEN matchBack(i - 1, s)
             ELSE staticMatch(s, m, patterns[i].templates)

matchStaticLastFirst(s) == matchBack(Len(patterns), s)

matchStatic(s) == matchFrom(1, s)

-----------------------------------------------------------------------------
(* commitFromVersion and isPseudoVersion                                   *)

\* the {14} of pseudoVersionRE
TimestampDigits == 14

incompatible == <<"+", "i", "n", "c", "o", "m", "p", "a", "t", "i", "b", "l", "e">>

\* [A-Za-z0-9]
Alnum == Upper \cup Lower \cup Digit

\* \d{14}-[A-Za-z0-9]+(\+incompatible)?$ from s[i]
pseudoTail(s, i) ==
    LET h == i + TimestampDigits
        n == RunLen(s, h + 1, Alnum)
        e == h + 1 + n
    IN  /\ \A k \in i..(h - 1) : k <= Len(s) /\ s[k] \in Digit
        /\ HasAt(s, h, <<"-">>)
        /\ n >= 1
        /\ \/ e = Len(s) + 1
           \/ HasAt(s, e, incompatible) /\ e + Len(incompatible) = Len(s) + 1

\* ^v[0-9]+\.(0\.0-|\d+\.\d+-([^+]*\.)?0\.)\d{14}-[A-Za-z0-9]+(\+incompatible)?$
pseudoVersionRE(s) ==
    LET n0 == RunLen(s, 2, Digit)
        r  == 3 + n0
        n1 == RunLen(s, r, Digit)
        n2 == RunLen(s, r + n1 + 1, Digit)
        b  == r + n1 + n2 + 2
    IN  /\ HasAt(s, 1, <<"v">>)
        /\ n0 >= 1
        /\ HasAt(s, 2 + n0, <<".">>)
        /\ \/ HasAt(s, r, <<"0", ".", "0", "-">>) /\ pseudoTail(s, r + Len(<<"0", ".", "0", "-">>))
           \/ /\ n1 >= 1
              /\ HasAt(s, r + n1, <<".">>)
              /\ n2 >= 1
              /\ HasAt(s, b - 1, <<"-">>)
              /\ \E q \in b..Len(s) :
                    /\ HasAt(s, q, <<"0", ".">>)
                    /\ pseudoTail(s, q + Len(<<"0", ".">>))
                    /\ \/ q = b
                       \/ s[q - 1] = "." /\ \A k \in b..(q - 1) : s[k] # "+"

isPseudoVersion(v) == Count(v, "-") >= 2 /\ pseudoVersionRE(v)

\* commitFromVersion without the directory of a nested module
commitFromVersionNoDir(ver, dir) ==
    LET v == TrimSuffix(ver, incompatible)
    IN  IF isPseudoVersion(v) THEN Drop(v, LastIndex(v, "-")) ELSE v

\* strings.Index(s, c) + 1 for a one-character c: 0 when c does not occur
Index(s, c) ==
    LET at == {i \in 1..Len(s) : s[i] = c}
    IN  IF at = {} THEN 0 ELSE CHOOSE i \in at : \A j \in at : i <= j

\* commitFromVersion cutting at the first hyphen
commitFromVersionFirstHyphen(ver, dir) ==
    LET v == TrimSuffix(ver, incompatible)
    IN  IF isPseudoVersion(v)
        THEN Drop(v, Index(v, "-"))
        ELSE IF dir # <<>> THEN dir \o <<"/">> \o v ELSE v

commitFromVersion(ver, dir) ==
    LET v == TrimSuffix(ver, incompatible)
    IN  IF isPseudoVersion(v)
        THEN Drop(v, LastIndex(v, "-"))
        ELSE IF dir # <<>> THEN dir \o <<"/">> \o v ELSE v

-----------------------------------------------------------------------------
(* expand                                                                  *)

\* the permutations of a set: the orders a range over a map can take
Orders(keys) ==
    {o \in [1..Cardinality(keys) -> keys] : \A i, j \in DOMAIN o : i # j => o[i] # o[j]}

\* the argument list of strings.NewReplacer for one order of the range
oldNew(match, order) ==
    [k \in DOMAIN order |-> [old |-> <<"{">> \o order[k] \o <<"}">>, new |-> match[order[k]]]]

\* Replacer.Replace from s[i] on: at each position the first pair, in argument
\* order, whose old string is found there is replaced and the scan goes on
\* after it; a character that starts no old string is copied
RECURSIVE Replace(_, _, _)
Replace(pairs, s, i) ==
    IF i > Len(s) THEN <<>>
    ELSE LET hits == {k \in DOMAIN pairs : HasAt(s, i, pairs[k].old)}
         IN  IF hits = {} THEN <<s[i]>> \o Replace(pairs, s, i + 1)
             ELSE LET k == CHOOSE x \in hits : \A y \in hits : x <= y
                  IN  pairs[k].new \o Replace(pairs, s, i + Len(pairs[k].old))

\* expand by one strings.Replace after the other, in the order of the range
RECURSIVE replaceEach(_, _, _)
replaceEach(pairs, s, k) ==
    IF k > Len(pairs) THEN s
    ELSE replaceEach(pairs, Replace(<<pairs[k]>>, s, 1), k + 1)

expandSequential(s, match, order) == replaceEach(oldNew(match, order), s, 1)

\* expand(s, match), the range over match taking the keys in this order
expand(s, match, order) == Replace(oldNew(match, order), s, 1)

-----------------------------------------------------------------------------
(* path.Join and the accessors of Info                                     *)

\* strings.Split(s, "/")
RECURSIVE Split(_)
Split(s) ==
    LET n == RunLen(s, 1, AnyChar \ {"/"})
    IN  IF n = Len(s) THEN <<s>>
        ELSE <<SubSeq(s, 1, n)>> \o Split(Drop(s, n + 1))

\* the elements path.Clean keeps, given those kept so far
RECURSIVE cleanSegs(_, _, _, _)
cleanSegs(segs, i, acc, rooted) ==
    IF i > Len(segs) THEN acc
    ELSE LET seg == segs[i]
         IN  IF seg \in {<<>>, <<".">>} THEN cleanSegs(segs, i + 1, acc, rooted)
             ELSE IF seg # <<".", ".">> THEN cleanSegs(segs, i + 1, Append(acc, seg), rooted)
             ELSE IF acc # <<>> /\ acc[Len(acc)] # <<".", ".">>
                  THEN cleanSegs(segs, i + 1, SubSeq(acc, 1, Len(acc) - 1), rooted)
             ELSE IF rooted THEN cleanSegs(segs, i + 1, acc, rooted)
             ELSE cleanSegs(segs, i + 1, Append(acc, seg), rooted)

RECURSIVE joinSegs(_)
joinSegs(segs) ==
    IF segs = <<>> THEN <<>>
    ELSE IF Len(segs) = 1 THEN segs[1]
    ELSE segs[1] \o <<"/">> \o joinSegs(Tail(segs))

\* path.Clean
Clean(p) ==
    LET rooted == HasPrefix(p, <<"/">>)
        body   == joinSegs(cleanSegs(Split(p), 1, <<>>, rooted))
        r      == IF rooted THEN <<"/">> \o body ELSE body
    IN  IF r = <<>> THEN <<".">> ELSE r

\* path.Join(a, b): empty elements are ignored, the rest joined and cleaned
Join(a, b) ==
    IF a = <<>> /\ b = <<>> THEN <<>>
    ELSE IF a = <<>> THEN Clean(b)
    ELSE IF b = <<>> THEN Clean(a)
    ELSE Clean(a \o <<"/">> \o b)

\* strconv.Itoa
RECURSIVE Itoa(_)
Itoa(n) ==
    LET digits == <<"0", "1", "2", "3", "4", "5", "6", "7", "8", "9">>
    IN  IF n < 0 THEN <<"-">> \o Itoa(0 - n)
        ELSE IF n < 10 THEN <<digits[n + 1]>>
        ELSE Itoa(n \div 10) \o <<digits[(n % 10) + 1]>>

\* the maps the accessors hand to expand
dirMatch(i, dir) ==
    (<<"r", "e", "p", "o">> :> i.RepoURL) @@ (<<"c", "o", "m", "m", "i", "t">> :> i.commit) @@ (<<"d", "i", "r">> :> Join(i.moduleDir, dir))

fileMatch(i, pathname) ==
    (<<"r", "e", "p", "o">> :> i.RepoURL) @@ (<<"c", "o", "m", "m", "i", "t">> :> i.commit) @@ (<<"f", "i", "l", "e">> :> Join(i.moduleDir, pathname))

lineMatch(i, pathname, line) == fileMatch(i, pathname) @@ (<<"l", "i", "n", "e">> :> Itoa(line))

\* DirectoryURL without the trim of the closing separator
DirectoryURLNoTrim(i, dir, order) == expand(i.templates.directory, dirMatch(i, dir), order)

DirectoryURL(i, dir, order) ==
    TrimSuffix(expand(i.templates.directory, dirMatch(i, dir), order), <<"/">>)

ModuleURL(i, order) == DirectoryURL(i, <<>>, order)

FileURL(i, pathname, order) == expand(i.templates.file, fileMatch(i, pathname), order)

LineURL(i, pathname, line, order) ==
    expand(i.templates.line, lineMatch(i, pathname, line), order)

-----------------------------------------------------------------------------
(* url.Parse, as far as moduleInfoDynamic uses it                          *)

\* getScheme: the index of the colon that ends the scheme, 0 when the URL has
\* no scheme, -1 for "missing protocol scheme"
RECURSIVE getScheme(_, _)
getScheme(raw, i) ==
    IF i > Len(raw) THEN 0
    ELSE IF raw[i] \in Lower \cup Upper THEN getScheme(raw, i + 1)
    ELSE IF raw[i] \in Digit \cup {"+", "-", "."} THEN (IF i = 1 THEN 0 ELSE getScheme(raw, i + 1))
    ELSE IF raw[i] = ":" THEN (IF i = 1 THEN 0 - 1 ELSE i)
    ELSE 0

\* url.Parse(raw): the error, rurl.Hostname() and rurl.Path
urlParse(raw) ==
    LET c     == getScheme(raw, 1)
        rest  == IF c > 0 THEN Drop(raw, c) ELSE raw
        seg1  == SubSeq(rest, 1, RunLen(rest, 1, AnyChar \ {"/"}))
        auth  == SubSeq(rest, 3, 2 + RunLen(rest, 3, AnyChar \ {"/"}))
        colon == LastIndex(auth, ":")
        port  == IF colon = 0 THEN <<>> ELSE Drop(auth, colon)
    IN  IF c < 0 THEN [err |-> "MalformedRepoURL", host |-> <<>>, path |-> <<>>]
        ELSE IF c = 0 /\ ~HasPrefix(rest, <<"/">>) /\ Count(seg1, ":") > 0
             THEN [err |-> "MalformedRepoURL", host |-> <<>>, path |-> <<>>]
        ELSE IF c > 0 /\ ~HasPrefix(rest, <<"/">>)
             THEN [err |-> Nil, host |-> <<>>, path |-> <<>>]
        ELSE IF HasPrefix(rest, <<"/", "/">>) /\ (c > 0 \/ ~HasPrefix(rest, <<"/", "/", "/">>))
             THEN IF \E k \in 1..Len(port) : port[k] \notin Digit
                  THEN [err |-> "MalformedRepoURL", host |-> <<>>, path |-> <<>>]
                  ELSE [err |-> Nil,
                        host |-> IF colon = 0 THEN auth ELSE SubSeq(auth, 1, colon - 1),
                        path |-> Drop(rest, 2 + Len(auth))]
        ELSE [err |-> Nil, host |-> <<>>, path |-> rest]

-----------------------------------------------------------------------------
(* Inputs                                                                  *)

\* the longest module path, in tokens
MaxTokens == 3

\* the longest module path of the requests whose Info the accessors are asked
MaxURLTokens == 1

Tokens ==
    {<<"g", "i", "t", "h", "u", "b", ".", "c", "o", "m", "/", "a", "/", "b">>, <<"a", ".", "g", "o", "o", "g", "l", "e", "s", "o", "u", "r", "c", "e", ".", "c", "o", "m", "/", "r">>, <<"x", ".", "i", "o", "/", "r">>, <<"/", "c">>, <<"/">>, <<".", "g", "i", "t">>, <<"X">>}

RECURSIVE PathsOf(_)
PathsOf(n) ==
    IF n = 0 THEN {<<>>}
    ELSE LET shorter == PathsOf(n - 1)
         IN  shorter \cup {p \o t : p \in shorter, t \in Tokens}

\* stdlib.ModulePath
stdlibModulePath == <<"s", "t", "d">>

ModulePaths(n) == PathsOf(n) \cup {stdlibModulePath}

Versions ==
    {<<"v", "1", ".", "2", ".", "3">>, <<"v", "2", ".", "0", ".", "0", "+", "i", "n", "c", "o", "m", "p", "a", "t", "i", "b", "l", "e">>, <<"v", "0", ".", "0", ".", "0", "-", "2", "0", "1", "9", "0", "1", "0", "1", "0", "0", "0", "0", "0", "0", "-", "a", "b", "c", "d", "e", "f", "1", "2", "3", "4", "5", "6">>, <<>>}

\* the repository URLs a go-import or go-source tag may name
RepoURLs ==
    {<<"h", "t", "t", "p", "s", ":", "/", "/", "g", "i", "t", "h", "u", "b", ".", "c", "o", "m", "/", "a", "/", "b">>, <<"h", "t", "t", "p", "s", ":", "/", "/", "b", "i", "t", "b", "u", "c", "k", "e", "t", ".", "o", "r", "g", "/", "a", "/", "b", "/">>, <<"h", "t", "t", "p", "s", ":", "/", "/", "x", ".", "i", "o", "/", "r">>,
     <<"h", "t", "t", "p", "s", ":", "/", "/", "x", ".", "i", "o", ":", "8", "0", "/", "r", ".", "g", "i", "t">>, <<":", "x">>}

\* the repo root prefixes a tag may name for a module path: the path, and
\* what of it comes before one of its separators
RootPrefixes(mp) ==
    {SubSeq(mp, 1, n) : n \in {k \in 1..Len(mp) : k = Len(mp) \/ mp[k + 1] = "/"}}

-----------------------------------------------------------------------------
(* moduleInfo                                                              *)

nilInfo == [nil |-> TRUE]

Info(repoURL, dir, commit, templates) ==
    [nil |-> FALSE, RepoURL |-> repoURL, moduleDir |-> dir, commit |-> commit,
     templates |-> templates]

noMeta == [repoURL |-> <<>>, repoRootPrefix |-> <<>>]

noFetch == [err |-> Nil, meta |-> noMeta]

noCall == [op |-> "none"]

pending == [info |-> nilInfo, err |-> Nil]

\* stdlib.TagForVersion(version) and stdlib.Directory(version): a tag and a
\* directory, or InvalidVersion
stdlibOutcomes(ver) ==
    {[err |-> "InvalidVersion", tag |-> <<>>, dir |-> <<>>],
     [err |-> Nil, tag |-> <<"g", "o", "1", ".", "2", ".", "3">>, dir |-> <<"s", "r", "c">>]}

\* stdlib.GoSourceRepoURL
GoSourceRepoURL == <<"h", "t", "t", "p", "s", ":", "/", "/", "g", "i", "t", "h", "u", "b", ".", "c", "o", "m", "/", "g", "o", "l", "a", "n", "g", "/", "g", "o">>

\* moduleInfo, the branch modulePath == stdlib.ModulePath
stdlibInfo(ver, o) ==
    IF o.err # Nil THEN [info |-> nilInfo, err |-> o.err]
    ELSE [info |-> Info(GoSourceRepoURL, o.dir, o.tag, githubURLTemplates), err |-> Nil]

\* moduleInfo, the return after a static match
staticInfo(ver, m) ==
    [info |-> Info(<<"h", "t", "t", "p", "s", ":", "/", "/">> \o m.repo, m.dir, commitFromVersion(ver, m.dir), m.templates),
     err  |-> Nil]

\* the error of a context that is done
ctxErr(c) == IF c = "canceled" THEN "Canceled" ELSE "DeadlineExceeded"

\* fetchMeta(ctx, client, modulePath): the error of the context when it is done
\* before the fetch completes, else a failure to find the tags or their content
fetchMetaOutcomes(c, mp) ==
    IF c # "live" THEN {[err |-> ctxErr(c), meta |-> noMeta]}
    ELSE {[err |-> "DiscoveryFailure", meta |-> noMeta]} \cup
         {[err |-> Nil, meta |-> [repoURL |-> u, repoRootPrefix |-> p]] :
             u \in RepoURLs, p \in RootPrefixes(mp)}

\* moduleInfoDynamic building the Info whatever fetchMeta and url.Parse return
dynamicInfoPartial(mp, ver, f) ==
    LET rurl      == urlParse(f.meta.repoURL)
        templates == matchStatic(Join(rurl.host, rurl.path)).templates
        dir       == TrimPrefix(TrimPrefix(mp, f.meta.repoRootPrefix), <<"/">>)
    IN  [info |-> Info(TrimSuffix(f.meta.repoURL, <<"/">>), dir,
                       commitFromVersion(ver, dir), templates),
         err  |-> IF f.err # Nil THEN f.err ELSE rurl.err]

\* moduleInfoDynamic returning the error of its call of matchStatic
dynamicInfoHard(mp, ver, f) ==
    LET rurl    == urlParse(f.meta.repoURL)
        matched == matchStatic(Join(rurl.host, rurl.path))
        dir     == TrimPrefix(TrimPrefix(mp, f.meta.repoRootPrefix), <<"/">>)
    IN  IF f.err # Nil THEN [info |-> nilInfo, err |-> f.err]
        ELSE IF rurl.err # Nil THEN [info |-> nilInfo, err |-> rurl.err]
        ELSE IF matched.err # Nil THEN [info |-> nilInfo, err |-> matched.err]
        ELSE [info |-> Info(TrimSuffix(f.meta.repoURL, <<"/">>), dir,
                            commitFromVersion(ver, dir), matched.templates),
              err  |-> Nil]

\* moduleInfoDynamic from the return of fetchMeta on
dynamicInfo(mp, ver, f) ==
    LET rurl      == urlParse(f.meta.repoURL)
        templates == matchStatic(Join(rurl.host, rurl.path)).templates
        dir       == TrimPrefix(TrimPrefix(mp, f.meta.repoRootPrefix), <<"/">>)
    IN  IF f.err # Nil THEN [info |-> nilInfo, err |-> f.err]
        ELSE IF rurl.err # Nil THEN [info |-> nilInfo, err |-> rurl.err]
        ELSE [info |-> Info(TrimSuffix(f.meta.repoURL, <<"/">>), dir,
                            commitFromVersion(ver, dir), templates),
              err  |-> Nil]

-----------------------------------------------------------------------------
(* A request: moduleInfo(ctx, client, modulePath, version), then the        *)
(* accessors of the Info it returned                                       *)

\* the state before the call, for the module paths of at most n tokens
Request(n) ==
    /\ modulePath \in ModulePaths(n)
    /\ version \in Versions
    /\ pc = "start"
    /\ ctx = "live"
    /\ steps = <<>>
    /\ fetchCount = 0
    /\ staticRes = staticNotFound
    /\ fetched = noFetch
    /\ result = pending
    /\ args = noCall
    /\ out = <<>>

Init == Request(MaxTokens)

\* the caller cancels its context
Cancel ==
    /\ pc # "done"
    /\ ctx = "live"
    /\ ctx' = "canceled"
    /\ steps' = Append(steps, "cancel")
    /\ UNCHANGED <<modulePath, version, pc, fetchCount, staticRes, fetched,
                   result, args, out>>

\* the minute of context.WithTimeout runs out during the fetch
Timeout ==
    /\ pc = "fetching"
    /\ ctx = "live"
    /\ ctx' = "expired"
    /\ steps' = Append(steps, "timeout")
    /\ UNCHANGED <<modulePath, version, pc, fetchCount, staticRes, fetched,
                   result, args, out>>

\* moduleInfo: the standard-library check
StdlibCheck ==
    /\ pc = "start"
    /\ steps' = Append(steps, "stdlib")
    /\ IF modulePath = stdlibModulePath
       THEN /\ \E o \in stdlibOutcomes(version) : result' = stdlibInfo(version, o)
            /\ pc' = "done"
       ELSE /\ pc' = "static"
            /\ UNCHANGED result
    /\ UNCHANGED <<modulePath, version, ctx, fetchCount, staticRes, fetched, args, out>>

\* moduleInfo returning the error of matchStatic
StaticMatchNoFallback ==
    /\ pc = "static"
    /\ steps' = Append(steps, "static")
    /\ staticRes' = matchStatic(modulePath)
    /\ result' = IF staticRes'.err # Nil THEN [info |-> nilInfo, err |-> staticRes'.err]
                 ELSE staticInfo(version, staticRes')
    /\ pc' = "done"
    /\ UNCHANGED <<modulePath, version, ctx, fetchCount, fetched, args, out>>

\* moduleInfo: matchStatic, and the return when it matched
StaticMatch ==
    /\ pc = "static"
    /\ steps' = Append(steps, "static")
    /\ staticRes' = matchStatic(modulePath)
    /\ IF staticRes'.err # Nil
       THEN /\ pc' = "dynamic"
            /\ UNCHANGED result
       ELSE /\ result' = staticInfo(version, staticRes')
            /\ pc' = "done"
    /\ UNCHANGED <<modulePath, version, ctx, fetchCount, fetched, args, out>>

\* moduleInfoDynamic: the call of fetchMeta under the bounded context
FetchMeta ==
    /\ pc = "dynamic"
    /\ steps' = Append(steps, "fetch")
    /\ fetchCount' = fetchCount + 1
    /\ pc' = "fetching"
    /\ UNCHANGED <<modulePath, version, ctx, staticRes, fetched, result, args, out>>

\* moduleInfoDynamic: fetchMeta returns, and the rest of the function
FetchReturn ==
    /\ pc = "fetching"
    /\ \E f \in fetchMetaOutcomes(ctx, modulePath) :
          /\ fetched' = f
          /\ result' = dynamicInfo(modulePath, version, f)
    /\ pc' = "done"
    /\ UNCHANGED <<modulePath, version, ctx, steps, fetchCount, staticRes, args, out>>

\* The accessors read the Info and change nothing: one call for each request
\* shows all they return. The sub-directories, files and lines the accessors are asked for
SubDirs == {<<>>, <<"d">>}

PathNames == {<<"x">>}

Lines == {7}

CallModuleURL ==
    /\ pc = "done" /\ ~result.info.nil /\ args = noCall
    /\ \E order \in Orders(DOMAIN dirMatch(result.info, <<>>)) :
          /\ args' = [op |-> "ModuleURL"]
          /\ out' = ModuleURL(result.info, order)
    /\ UNCHANGED <<modulePath, version, pc, ctx, steps, fetchCount, staticRes, fetched,
                   result>>

CallDirectoryURL ==
    /\ pc = "done" /\ ~result.info.nil /\ args = noCall
    /\ \E dir \in SubDirs, order \in Orders(DOMAIN dirMatch(result.info, <<>>)) :
          /\ args' = [op |-> "DirectoryURL", dir |-> dir]
          /\ out' = DirectoryURL(result.info, dir, order)
    /\ UNCHANGED <<modulePath, version, pc, ctx, steps, fetchCount, staticRes, fetched,
                   result>>

CallFileURL ==
    /\ pc = "done" /\ ~result.info.nil /\ args = noCall
    /\ \E pathname \in PathNames, order \in Orders(DOMAIN fileMatch(result.info, <<>>)) :
          /\ args' = [op |-> "FileURL", pathname |-> pathname]
          /\ out' = FileURL(result.info, pathname, order)
    /\ UNCHANGED <<modulePath, version, pc, ctx, steps, fetchCount, staticRes, fetched,
                   result>>

CallLineURL ==
    /\ pc = "done" /\ ~result.info.nil /\ args = noCall
    /\ \E pathname \in PathNames, line \in Lines,
          order \in Orders(DOMAIN lineMatch(result.info, <<>>, 0)) :
          /\ args' = [op |-> "LineURL", pathname |-> pathname, line |-> line]
          /\ out' = LineURL(result.info, pathname, line, order)
    /\ UNCHANGED <<modulePath, version, pc, ctx, steps, fetchCount, staticRes, fetched,
                   result>>

Next ==
    \/ Cancel
    \/ Timeout
    \/ StdlibCheck
    \/ StaticMatch
    \/ FetchMeta
    \/ FetchReturn

Spec == Init /\ [][Next]_vars

\* requests for the module paths of at most MaxURLTokens tokens, and the
\* accessors of the Info they return
InitURL == Request(MaxURLTokens)

NextURL ==
    \/ Next
    \/ CallModuleURL
    \/ CallDirectoryURL
    \/ CallFileURL
    \/ CallLineURL

SpecURL == InitURL /\ [][NextURL]_vars

-----------------------------------------------------------------------------
(* commitFromVersion and expand on their own: a call and its return         *)

\* the state before a call of a function with these arguments
Call(a) ==
    /\ modulePath = <<>>
    /\ version = <<>>
    /\ pc = "call"
    /\ ctx = "live"
    /\ steps = <<>>
    /\ fetchCount = 0
    /\ staticRes = staticNotFound
    /\ fetched = noFetch
    /\ result = pending
    /\ args = a
    /\ out = <<>>

\* the most "+incompatible" markers at the end of a version
MaxMarkers == 1

RECURSIVE WithMarkers(_, _)
WithMarkers(v, n) == IF n = 0 THEN v ELSE WithMarkers(v, n - 1) \o incompatible

CommitVersions ==
    {WithMarkers(v, n) :
        v \in {<<"v", "1", ".", "2", ".", "3">>, <<"v", "2", ".", "0", ".", "0">>, <<"v", "0", ".", "0", ".", "0", "-", "2", "0", "1", "9", "0", "1", "0", "1", "0", "0", "0", "0", "0", "0", "-", "a", "b", "c", "d", "e", "f", "1", "2", "3", "4", "5", "6">>,
               <<"v", "1", ".", "2", ".", "4", "-", "0", ".", "2", "0", "1", "9", "0", "1", "0", "1", "0", "0", "0", "0", "0", "0", "-", "a", "b", "c">>, <<"v", "1", ".", "2", ".", "3", "-", "p", "r", "e", ".", "0", ".", "2", "0", "1", "9", "0", "1", "0", "1", "0", "0", "0", "0", "0", "0", "-", "a", "b", "c">>,
               <<"v", "1", ".", "0", ".", "0", "-", "r", "c", "-", "1">>, <<"v", "0", ".", "0", ".", "0", "-", "2", "0", "1", "9", "0", "1", "0", "1", "0", "0", "0", "0", "0", "-", "a", "b", "c">>, <<>>},
        n \in 0..MaxMarkers}

CommitDirs == {<<>>, <<"s", "u", "b">>, <<"a", "/", "b">>, <<"c", "/">>}

InitCommit ==
    \E v \in CommitVersions, d \in CommitDirs :
        Call([op |-> "commitFromVersion", version |-> v, dir |-> d])

CallCommitFromVersion ==
    /\ pc = "call"
    /\ args.op = "commitFromVersion"
    /\ out' = commitFromVersion(args.version, args.dir)
    /\ pc' = "returned"
    /\ UNCHANGED <<modulePath, version, ctx, steps, fetchCount, staticRes, fetched, result,
                   args>>

NextCommit == CallCommitFromVersion

SpecCommit == InitCommit /\ [][NextCommit]_vars

\* the longest template, in parts
MaxParts == 3

\* a template is a sequence of parts: text, or the token of a key
Text(t) == [token |-> FALSE, text |-> t]

Token(k) == [token |-> TRUE, text |-> k]

TemplateParts == {Text(<<"/">>), Text(<<"}">>), Token(<<"r", "e", "p", "o">>), Token(<<"d", "i", "r">>), Token(<<"f", "i", "l", "e">>)}

RECURSIVE TemplatesOf(_)
TemplatesOf(n) ==
    IF n = 0 THEN {<<>>}
    ELSE LET shorter == TemplatesOf(n - 1)
         IN  shorter \cup {Append(t, p) : t \in shorter, p \in TemplateParts}

\* the string of a template
RECURSIVE Flatten(_)
Flatten(parts) ==
    IF parts = <<>> THEN <<>>
    ELSE (IF parts[1].token THEN <<"{">> \o parts[1].text \o <<"}">> ELSE parts[1].text)
         \o Flatten(Tail(parts))

\* the keys of the maps the accessors build, and values with and without a token
ExpandKeys == {<<"r", "e", "p", "o">>, <<"d", "i", "r">>, <<"f", "i", "l", "e">>}

ExpandValues == {<<"a">>, <<"{", "d", "i", "r", "}">>}

ExpandMatches == UNION {[keys -> ExpandValues] : keys \in SUBSET ExpandKeys}

\* a call of expand: a template, a map and an order of the range over it
InitExpand ==
    \E t \in TemplatesOf(MaxParts), m \in ExpandMatches :
        \E o \in Orders(DOMAIN m) :
            Call([op |-> "expand", parts |-> t, s |-> Flatten(t), match |-> m, order |-> o])

CallExpand ==
    /\ pc = "call"
    /\ args.op = "expand"
    /\ out' = expand(args.s, args.match, args.order)
    /\ pc' = "returned"
    /\ UNCHANGED <<modulePath, version, ctx, steps, fetchCount, staticRes, fetched, result,
                   args>>

NextExpand == CallExpand

SpecExpand == InitExpand /\ [][NextExpand]_vars

-----------------------------------------------------------------------------
(* Properties                                                              *)

\* the patterns of the table that match s
Matching(s) == {i \in 1..Len(patterns) : FindStringSubmatch(patterns[i].re, s).matched}

\* the least number of a non-empty set of numbers
Least(S) == CHOOSE i \in S : \A j \in S : i <= j

\* matchStatic has just returned in this request: what it returned is kept
\* to the end of the request
staticDone ==
    /\ modulePath # stdlibModulePath
    /\ pc = "dynamic" \/ (pc = "done" /\ fetchCount = 0)

\* the calls of moduleInfo, in order, without the events of the context
calls == SelectSeq(steps, LAMBDA e : e \notin {"cancel", "timeout"})

\* C1: for a module path that two or more patterns match, matchStatic returns
\* the repo, the directory and the templates of the matching pattern that
\* comes first in the table, however much of the path a later pattern matches.
C1_FirstPatternWins ==
    staticDone =>
        LET M == Matching(modulePath)
        IN  Cardinality(M) >= 2 =>
               LET i == Least(M)
                   m == FindStringSubmatch(patterns[i].re, modulePath)
               IN  /\ staticRes.err = Nil
                   /\ staticRes.repo = m.repo
                   /\ staticRes.dir = TrimPrefix(Drop(modulePath, Len(m.m0)), <<"/">>)
                   /\ staticRes.templates = patterns[i].templates

\* C1, its case: the github pattern wins over the general pattern, which
\* matches more of the path.
C1_Witness ==
    /\ staticDone
    /\ modulePath = <<"g", "i", "t", "h", "u", "b", ".", "c", "o", "m", "/", "a", "/", "b", "/", "c", ".", "g", "i", "t">>
    /\ Matching(modulePath) = {1, 4}
    /\ Len(FindStringSubmatch("general", modulePath).m0) > Len(FindStringSubmatch("github", modulePath).m0)
    /\ staticRes.templates = githubURLTemplates
    /\ staticRes.dir = <<"c", ".", "g", "i", "t">>

\* C2 as stated: for a version that is not a pseudo-version, commitFromVersion
\* returns dir + "/" + version, or version unchanged for an empty dir, also
\* for a version that ends in "+incompatible".
C2_VersionUnchanged ==
    pc = "returned" /\ ~isPseudoVersion(TrimSuffix(args.version, incompatible)) =>
        out = IF args.dir # <<>> THEN args.dir \o <<"/">> \o args.version ELSE args.version

\* C2, amended: for a version that is not a pseudo-version, commitFromVersion
\* returns dir + "/" + v, or v for an empty dir, where v is the version
\* without one closing "+incompatible".
C2_TaggedCommit ==
    pc = "returned" /\ ~isPseudoVersion(TrimSuffix(args.version, incompatible)) =>
        LET v == IF HasSuffix(args.version, incompatible)
                 THEN SubSeq(args.version, 1, Len(args.version) - Len(incompatible))
                 ELSE args.version
        IN  out = IF args.dir # <<>> THEN args.dir \o <<"/">> \o v ELSE v

\* C2, its case: a tagged version with the marker, in a nested module.
C2_Witness ==
    /\ pc = "returned"
    /\ args.version = <<"v", "2", ".", "0", ".", "0", "+", "i", "n", "c", "o", "m", "p", "a", "t", "i", "b", "l", "e">>
    /\ args.dir = <<"s", "u", "b">>
    /\ ~isPseudoVersion(<<"v", "2", ".", "0", ".", "0">>)
    /\ out = <<"s", "u", "b", "/", "v", "2", ".", "0", ".", "0">>

\* C3: for a pseudo-version, with or without a closing "+incompatible",
\* commitFromVersion returns what follows the last hyphen of the version
\* without the marker, whatever the directory.
C3_PseudoCommit ==
    pc = "returned" /\ isPseudoVersion(TrimSuffix(args.version, incompatible)) =>
        /\ \A k \in 1..Len(out) : out[k] # "-"
        /\ HasSuffix(TrimSuffix(args.version, incompatible), <<"-">> \o out)
        /\ \A d \in CommitDirs : commitFromVersion(args.version, d) = out

\* C3, its case: a pseudo-version with the marker, in a nested module.
C3_Witness ==
    /\ pc = "returned"
    /\ args.version = <<"v", "0", ".", "0", ".", "0", "-", "2", "0", "1", "9", "0", "1", "0", "1", "0", "0", "0", "0", "0", "0", "-", "a", "b", "c", "d", "e", "f", "1", "2", "3", "4", "5", "6", "+", "i", "n", "c", "o", "m", "p", "a", "t", "i", "b", "l", "e">>
    /\ args.dir = <<"s", "u", "b">>
    /\ out = <<"a", "b", "c", "d", "e", "f", "1", "2", "3", "4", "5", "6">>

\* the string of a template with the token of every key of the map replaced
\* by the value of the key
RECURSIVE Substituted(_, _)
Substituted(parts, match) ==
    IF parts = <<>> THEN <<>>
    ELSE (IF ~parts[1].token THEN parts[1].text
          ELSE IF parts[1].text \in DOMAIN match THEN match[parts[1].text]
          ELSE <<"{">> \o parts[1].text \o <<"}">>)
         \o Substituted(Tail(parts), match)

dynamicDone == pc = "done" /\ fetchCount >= 1

\* C5: moduleInfoDynamic returns an error and no Info, or an Info and no
\* error; it returns the error of the context when the context is canceled
\* before or during the fetch or the minute runs out, and an error when the
\* fetch fails or the repository URL does not parse.
C5_ErrorOrInfo ==
    dynamicDone =>
        /\ result.info.nil <=> result.err # Nil
        /\ ctx # "live" => result.err = ctxErr(ctx)
        /\ fetched.err # Nil => result.err = fetched.err
        /\ fetched.err = Nil /\ urlParse(fetched.meta.repoURL).err # Nil => result.err # Nil

\* C5, its case: the context was canceled before moduleInfoDynamic was called.
C5_Witness ==
    /\ dynamicDone
    /\ steps = <<"cancel", "stdlib", "static", "fetch">>
    /\ result.err = "Canceled"
    /\ result.info.nil

\* moduleInfo has returned an Info by the static or the dynamic path
infoDone == pc = "done" /\ modulePath # stdlibModulePath /\ ~result.info.nil

\* C6 as stated: the module directory of an Info never ends in a separator.
C6_NoClosingSeparator == infoDone => ~HasSuffix(result.info.moduleDir, <<"/">>)

\* C6, amended: the module directory of an Info does not end in a separator
\* unless the module path does.
C6_ClosingSeparatorOfPath ==
    infoDone /\ ~HasSuffix(modulePath, <<"/">>) => ~HasSuffix(result.info.moduleDir, <<"/">>)

\* C6, its case: a nested module found by the dynamic path.
C6_Witness ==
    /\ infoDone
    /\ modulePath = <<"x", ".", "i", "o", "/", "r", "/", "c">>
    /\ fetched.meta.repoRootPrefix = <<"x", ".", "i", "o", "/", "r">>
    /\ result.info.moduleDir = <<"c">>

\* C7: matchStatic returns a match only for a pattern that matches at the
\* start of the path, and then the path is the matched text, a separator or
\* none, and the directory; when no pattern matches at the start it returns
\* NotFound.
C7_MatchAtStart ==
    staticDone =>
        LET atStart == {i \in Matching(modulePath) :
                           FindStringSubmatch(patterns[i].re, modulePath).at = 1}
        IN  IF atStart = {} THEN staticRes.err = NotFound
            ELSE /\ staticRes.err = Nil
                 /\ \E i \in atStart :
                       LET m0 == FindStringSubmatch(patterns[i].re, modulePath).m0
                       IN  modulePath \in {m0 \o staticRes.dir, m0 \o <<"/">> \o staticRes.dir}

\* the version without one closing "+incompatible"
unmarked == TrimSuffix(version, incompatible)

\* the request is for a github.com path with no directory below the repo and
\* a version that is not a pseudo-version, and an accessor has returned
githubRoot ==
    /\ pc = "done"
    /\ args # noCall
    /\ reGithub(modulePath).matched
    /\ staticRes.dir = <<>>
    /\ ~isPseudoVersion(unmarked)

unknownHost ==
    /\ dynamicDone
    /\ fetched.err = Nil
    /\ urlParse(fetched.meta.repoURL).err = Nil
    /\ Matching(Join(urlParse(fetched.meta.repoURL).host,
                     urlParse(fetched.meta.repoURL).path)) = {}

\* C9: when the fetch succeeds and the repository URL parses but no pattern
\* matches it, moduleInfoDynamic returns no error and an Info with empty
\* templates, the repository URL without a closing separator, the module
\* directory and the commit.
C9_UnknownHostIsSoft ==
    unknownHost =>
        /\ result.err = Nil
        /\ ~result.info.nil
        /\ result.info.templates = noTemplates
        /\ IF HasSuffix(fetched.meta.repoURL, <<"/">>)
           THEN fetched.meta.repoURL = result.info.RepoURL \o <<"/">>
           ELSE fetched.meta.repoURL = result.info.RepoURL
        /\ modulePath \in {fetched.meta.repoRootPrefix \o result.info.moduleDir,
                           fetched.meta.repoRootPrefix \o <<"/">> \o result.info.moduleDir}
        /\ result.info.commit = commitFromVersion(version, result.info.moduleDir)

\* C9, its case: a nested module whose tag names a repository on an unknown host.
C9_Witness ==
    /\ unknownHost
    /\ fetched.meta.repoURL = <<"h", "t", "t", "p", "s", ":", "/", "/", "x", ".", "i", "o", "/", "r">>
    /\ modulePath = <<"x", ".", "i", "o", "/", "r", "/", "c">>
    /\ version = <<"v", "1", ".", "2", ".", "3">>
    /\ result.err = Nil
    /\ result.info.templates = noTemplates
    /\ result.info.commit = <<"c", "/", "v", "1", ".", "2", ".", "3">>

\* C10: moduleInfo checks for the standard library, then calls matchStatic,
\* then fetchMeta; fetchMeta is called at most once, and it is called exactly
\* when the path is not the standard library and matchStatic returned
\* NotFound; the NotFound of matchStatic is never the error returned.
C10_Order ==
    /\ \E n \in 0..3 : calls = SubSeq(<<"stdlib", "static", "fetch">>, 1, n)
    /\ fetchCount <= 1
    /\ fetchCount = Cardinality({k \in 1..Len(steps) : steps[k] = "fetch"})
    /\ pc = "done" =>
          /\ fetchCount = 1 <=>
                /\ modulePath # stdlibModulePath
                /\ calls[Len(calls)] # "stdlib"
                /\ staticRes.err = NotFound
          /\ result.err # NotFound

\* C10, its case: a request that went through the three steps and got an Info.
C10_Witness ==
    /\ pc = "done"
    /\ calls = <<"stdlib", "static", "fetch">>
    /\ fetchCount = 1
    /\ result.err = Nil

====
